---- MODULE Spec2Model ----
(***************************************************************************)
(* A model of cec, the extension layer over the standard sequence          *)
(* containers (src/cec/extended_sequence_container.hpp and                 *)
(* src/cec/detail/extended_sequence_container.hpp).                        *)
(*                                                                         *)
(* A container is the sequence of its elements.  A cursor (iterator) over  *)
(* a container c is a position 1..Len(c)+1, where Len(c)+1 is end().  Each *)
(* operation of the facade is an operator that walks its cursors the way   *)
(* the C++ does and returns the value it returns, the receiver it leaves   *)
(* behind and the list of cursor events (increments and dereferences) it   *)
(* performed.  An increment or a dereference at end() is undefined         *)
(* behaviour: the action that performs such a call then chooses among the  *)
(* outcomes a build produces.                                              *)
(*                                                                         *)
(* Types (for the rebinding machinery) are records [name, args].           *)
(***************************************************************************)
EXTENDS Integers, Sequences, FiniteSets, TLC

\* ------------------------------------------------------------ bounds
MaxElem == 2
MaxLen == 3
MaxArgLen == 2
MaxOuter == 2
MaxInner == 2
MaxRebinds == 2
MaxStr == 3
MaxDelim == 1
MaxPartLen == 1
MaxParts == 3

\* ------------------------------------------------------------ values
Elem == 1..MaxElem

\* A value that is no element of any container: what a read outside the
\* container's elements may yield.
Indeterminate == MaxElem + 1

SeqsUpTo(S, n) == UNION {[1..k -> S] : k \in 0..n}

Min(a, b) == IF a <= b THEN a ELSE b

Range(s) == {s[i] : i \in 1..Len(s)}

\* The receivers and the arguments the model draws.
FlatSeqs == SeqsUpTo(Elem, MaxLen)
ArgSeqs == SeqsUpTo(Elem, MaxArgLen)
NestedSeqs == SeqsUpTo(SeqsUpTo(Elem, MaxInner), MaxOuter)
PairSeqs == SeqsUpTo(Elem \X Elem, MaxLen)

\* UnaryPredicate p: the set of the elements it accepts.
Predicates == SUBSET Elem
p_call(p, x) == x \in p

\* UnaryFunction f returning value_type.
UnaryFunctions == [Elem -> Elem]

\* BinaryFunction f of reduce, returning value_type.
BinaryFunctions == {"first", "second", "plus", "mix"}
f_call(f, a, b) ==
    CASE f = "first" -> a
      [] f = "second" -> b
      [] f = "plus" -> ((a + b - 1) % MaxElem) + 1
      [] OTHER -> ((2 * a + b) % MaxElem) + 1

\* ------------------------------------------------------------ shapes
\* The wrapped container of the receiver (cec::vector, cec::deque, cec::list)
\* and of an argument (any of them, or a forward_list).
Shapes == {"vector", "deque", "list"}
ArgShapes == {"list", "forward_list"}

\* detail::is_random_access: the iterator category of the container.
is_random_access(sh) == sh \in {"vector", "deque", "string"}

\* Whether c.size() is a valid expression (forward_list has none).
has_size(sh) == sh # "forward_list"

\* ------------------------------------------------------------ cursors
\* end() of a container.
End(c) == Len(c) + 1

\* A cursor event: ++ or * of the cursor of input `c` (0: the receiver,
\* k: the k-th argument) standing at position `at` of a container whose end()
\* is `end`.
Inc(c, at, end) == [k |-> "inc", c |-> c, at |-> at, end |-> end]
Deref(c, at, end) == [k |-> "deref", c |-> c, at |-> at, end |-> end]

\* A cursor was incremented although it stood at end().
AdvancedPastEnd(l) == \E i \in 1..Len(l) : l[i].k = "inc" /\ l[i].at >= l[i].end

\* A cursor was dereferenced although it stood at (or past) end().
DereferencedEnd(l) == \E i \in 1..Len(l) : l[i].k = "deref" /\ l[i].at >= l[i].end

UndefinedBehaviour(l) == AdvancedPastEnd(l) \/ DereferencedEnd(l)

\* std::next(it, n) / std::advance(it, n), n >= 0: n increments from `at`.
RECURSIVE std_next(_, _, _, _)
std_next(id, c, at, n) ==
    IF n <= 0 THEN [at |-> at, log |-> <<>>]
    ELSE LET rest == std_next(id, c, at + 1, n - 1)
         IN  [at |-> rest.at, log |-> <<Inc(id, at, End(c))>> \o rest.log]

\* Container(first, last) and insert(pos, first, last): the elements of
\* [first, last) of c, read one by one.  Positions at or past end() hold no
\* element; what is read there is decided by the caller (Indeterminate here).
RECURSIVE range_copy(_, _, _, _)
range_copy(id, c, first, last) ==
    IF first >= last THEN [ret |-> <<>>, log |-> <<>>]
    ELSE LET rest == range_copy(id, c, first + 1, last)
             x == IF first <= Len(c) THEN c[first] ELSE Indeterminate
         IN  [ret |-> <<x>> \o rest.ret,
              log |-> <<Deref(id, first, End(c)), Inc(id, first, End(c))>>
                          \o rest.log]

\* erase(first, last): the container without the elements of [first, last).
erase(c, first, last) ==
    LET keep == {i \in 1..Len(c) : i < first \/ i >= last}
        nth(k) == CHOOSE i \in keep : Cardinality({j \in keep : j < i}) = k - 1
    IN  [k \in 1..Cardinality(keep) |-> c[nth(k)]]

\* What is left of a container that was moved from (std::move(*this) into the
\* returned value).
MovedFrom == <<>>

\* ------------------------------------------------------------ take
\* take(num) const & that stops one element early.
take_lref_short(c, num) ==
    LET last == std_next(0, c, 1, num - 1)
        copy == range_copy(0, c, 1, last.at)
    IN  [ret |-> copy.ret, self |-> c, log |-> last.log \o copy.log]

\* take(num) const &:  return {begin(), std::next(begin(), num)};
take_lref(c, num) ==
    LET last == std_next(0, c, 1, num)
        copy == range_copy(0, c, 1, last.at)
    IN  [ret |-> copy.ret, self |-> c, log |-> last.log \o copy.log]

\* take(num) &&:  erase(std::next(begin(), num), end()); return std::move(*this);
take_rref(c, num) ==
    LET first == std_next(0, c, 1, num)
    IN  [ret |-> erase(c, first.at, End(c)), self |-> MovedFrom,
         log |-> first.log]

\* The results of take(num) with num > size(), which increments the cursor
\* past end(): a random-access container hands out num - size() values from
\* beyond its elements; a linked container's cursor passes its sentinel and
\* starts again at begin(), num % (size() + 1) steps in.
take_undefined(c, num, sh) ==
    IF is_random_access(sh)
    THEN {c \o [i \in 1..(num - Len(c)) |-> g] : g \in Elem \cup {Indeterminate}}
    ELSE {SubSeq(c, 1, num % (Len(c) + 1))}

\* ------------------------------------------------------------ take_while
\* std::find_if_not(first, last, p): the first position whose element fails p.
RECURSIVE std_find_if_not(_, _, _, _)
std_find_if_not(id, c, at, p) ==
    IF at >= End(c) THEN [at |-> at, log |-> <<>>]
    ELSE IF ~p_call(p, c[at]) THEN [at |-> at, log |-> <<Deref(id, at, End(c))>>]
    ELSE LET rest == std_find_if_not(id, c, at + 1, p)
         IN  [at |-> rest.at,
              log |-> <<Deref(id, at, End(c)), Inc(id, at, End(c))>> \o rest.log]

\* take_while(p) const &:  end = find_if_not(begin(), end(), p); return {begin(), end};
take_while_lref(c, p) ==
    LET end == std_find_if_not(0, c, 1, p)
        copy == range_copy(0, c, 1, end.at)
    IN  [ret |-> copy.ret, self |-> c, log |-> end.log \o copy.log]

\* take_while(p) &&:  last = find_if_not(...); erase(last, end()); return std::move(*this);
take_while_rref(c, p) ==
    LET last == std_find_if_not(0, c, 1, p)
    IN  [ret |-> erase(c, last.at, End(c)), self |-> MovedFrom, log |-> last.log]

\* ------------------------------------------------------------ erase_if, filter
\* std::remove_if(first, last, p) that moves the elements satisfying p to the
\* front instead.
RECURSIVE std_remove_if_keeps(_, _, _, _)
std_remove_if_keeps(c, p, i, w) ==
    IF i >= End(c) THEN [c |-> c, at |-> w, log |-> <<>>]
    ELSE LET rest == IF ~p_call(p, c[i])
                     THEN std_remove_if_keeps(c, p, i + 1, w)
                     ELSE std_remove_if_keeps([c EXCEPT ![w] = c[i]], p, i + 1, w + 1)
         IN  [c |-> rest.c, at |-> rest.at,
              log |-> <<Deref(0, i, End(c)), Inc(0, i, End(c))>> \o rest.log]

\* std::remove_if(first, last, p): the elements failing p are moved to the
\* front, in order; `at` is the new logical end.
RECURSIVE std_remove_if(_, _, _, _)
std_remove_if(c, p, i, w) ==
    IF i >= End(c) THEN [c |-> c, at |-> w, log |-> <<>>]
    ELSE LET rest == IF p_call(p, c[i])
                     THEN std_remove_if(c, p, i + 1, w)
                     ELSE std_remove_if([c EXCEPT ![w] = c[i]], p, i + 1, w + 1)
         IN  [c |-> rest.c, at |-> rest.at,
              log |-> <<Deref(0, i, End(c)), Inc(0, i, End(c))>> \o rest.log]

\* erase_if(p):  erase(std::remove_if(begin(), end(), p), end()); return *this;
erase_if(c, p) ==
    LET removed == std_remove_if(c, p, 1, 1)
    IN  [self |-> erase(removed.c, removed.at, End(c)), log |-> removed.log]

\* erase_all(value):  erase(std::remove(begin(), end(), value), end()); return *this;
\* std::remove is std::remove_if with the predicate "equals value".  The return
\* type is extended_sequence_container, not a reference: what is returned is a
\* copy of the receiver.
erase_all(c, value) ==
    LET removed == std_remove_if(c, {value}, 1, 1)
        erased == erase(removed.c, removed.at, End(c))
    IN  [ret |-> erased, self |-> erased, log |-> removed.log]

\* Whether the operation's return type is a reference (to *this) or a value.
returns_reference(o) ==
    CASE o = "erase_all" -> FALSE
      [] o \in {"erase_if", "extend", "sort", "transform"} -> TRUE
      [] OTHER -> FALSE

\* filter(p) const &:  for (item : *this) if (p(item)) temp.emplace(temp.end(), item);
RECURSIVE filter_loop(_, _, _, _)
filter_loop(c, p, at, temp) ==
    IF at >= End(c) THEN [ret |-> temp, log |-> <<>>]
    ELSE LET rest == filter_loop(c, p, at + 1,
                                 IF p_call(p, c[at]) THEN Append(temp, c[at]) ELSE temp)
         IN  [ret |-> rest.ret,
              log |-> <<Deref(0, at, End(c)), Inc(0, at, End(c))>> \o rest.log]

\* filter(p) const & that filters the receiver itself instead of a copy.
filter_lref_inplace(c, p) ==
    LET loop == filter_loop(c, p, 1, <<>>)
    IN  [ret |-> loop.ret, self |-> loop.ret, log |-> loop.log]

filter_lref(c, p) ==
    LET loop == filter_loop(c, p, 1, <<>>)
    IN  [ret |-> loop.ret, self |-> c, log |-> loop.log]

\* The lambda [&p](const value_type& v) { return !p(v); }
not_p(p) == Elem \ p

\* filter(p) &&:  return std::move(this->erase_if(not p));
filter_rref(c, p) ==
    LET erased == erase_if(c, not_p(p))
    IN  [ret |-> erased.self, self |-> MovedFrom, log |-> erased.log]

\* ------------------------------------------------------------ contains, count, count_if
\* std::find(first, last, value): the first position holding value, or last.
RECURSIVE std_find(_, _, _)
std_find(c, at, value) ==
    IF at >= End(c) THEN [at |-> at, log |-> <<>>]
    ELSE IF c[at] = value THEN [at |-> at, log |-> <<Deref(0, at, End(c))>>]
    ELSE LET rest == std_find(c, at + 1, value)
         IN  [at |-> rest.at,
              log |-> <<Deref(0, at, End(c)), Inc(0, at, End(c))>> \o rest.log]

\* contains(value) const:  return std::find(begin(), end(), value) != end();
contains(c, value) ==
    LET found == std_find(c, 1, value)
    IN  [ret |-> found.at # End(c), self |-> c, log |-> found.log]

\* std::count_if(first, last, p) that counts the elements failing p.
RECURSIVE std_count_if_not(_, _, _)
std_count_if_not(c, at, p) ==
    IF at >= End(c) THEN [n |-> 0, log |-> <<>>]
    ELSE LET rest == std_count_if_not(c, at + 1, p)
         IN  [n |-> rest.n + (IF p_call(p, c[at]) THEN 0 ELSE 1),
              log |-> <<Deref(0, at, End(c)), Inc(0, at, End(c))>> \o rest.log]

\* std::count_if(first, last, p): the number of positions whose element
\* satisfies p.
RECURSIVE std_count_if(_, _, _)
std_count_if(c, at, p) ==
    IF at >= End(c) THEN [n |-> 0, log |-> <<>>]
    ELSE LET rest == std_count_if(c, at + 1, p)
         IN  [n |-> rest.n + (IF p_call(p, c[at]) THEN 1 ELSE 0),
              log |-> <<Deref(0, at, End(c)), Inc(0, at, End(c))>> \o rest.log]

\* count(value) const:  return std::count(begin(), end(), value);
count(c, value) ==
    LET counted == std_count_if(c, 1, {value})
    IN  [ret |-> counted.n, self |-> c, log |-> counted.log]

\* count_if(p) const:  return std::count_if(begin(), end(), p);
count_if(c, p) ==
    LET counted == std_count_if(c, 1, p)
    IN  [ret |-> counted.n, self |-> c, log |-> counted.log]

\* ------------------------------------------------------------ extend, concat
\* extend(container) that inserts at begin().
extend_front(c, container) ==
    LET copy == range_copy(1, container, 1, End(container))
    IN  [self |-> copy.ret \o c, log |-> copy.log]

\* extend(container):  insert(end(), container.begin(), container.end()); return *this;
extend(c, container) ==
    LET copy == range_copy(1, container, 1, End(container))
    IN  [self |-> c \o copy.ret, log |-> copy.log]

\* concat(container) const &:  return extended_sequence_container(*this).extend(container);
concat_lref(c, container) ==
    LET extended == extend(c, container)
    IN  [ret |-> extended.self, self |-> c, log |-> extended.log]

\* concat(container) &&:  return std::move(extend(container));
concat_rref(c, container) ==
    LET extended == extend(c, container)
    IN  [ret |-> extended.self, self |-> MovedFrom, log |-> extended.log]

\* ------------------------------------------------------------ transform, map
\* transform(f):  std::transform(move(begin()), move(end()), begin(), f); return *this;
RECURSIVE transform_loop(_, _, _)
transform_loop(c, f, at) ==
    IF at >= End(c) THEN [self |-> c, log |-> <<>>]
    ELSE LET rest == transform_loop([c EXCEPT ![at] = f[c[at]]], f, at + 1)
         IN  [self |-> rest.self,
              log |-> <<Deref(0, at, End(c)), Inc(0, at, End(c))>> \o rest.log]

transform(c, f) == transform_loop(c, f, 1)

\* map(f) const &:  for (item : *this) mapped.emplace(mapped.end(), f(item));
RECURSIVE map_loop(_, _, _, _)
map_loop(c, f, at, mapped) ==
    IF at >= End(c) THEN [ret |-> mapped, log |-> <<>>]
    ELSE LET rest == map_loop(c, f, at + 1, Append(mapped, f[c[at]]))
         IN  [ret |-> rest.ret,
              log |-> <<Deref(0, at, End(c)), Inc(0, at, End(c))>> \o rest.log]

map_lref(c, f) ==
    LET loop == map_loop(c, f, 1, <<>>)
    IN  [ret |-> loop.ret, self |-> c, log |-> loop.log]

\* map(f) &&, f returning value_type:  return std::move(this->transform(f));
map_rref(c, f) ==
    LET transformed == transform(c, f)
    IN  [ret |-> transformed.self, self |-> MovedFrom, log |-> transformed.log]

\* ------------------------------------------------------------ reduce
\* An application f(a, b) of the caller's function, as an event of the log.
Call(a, b) == [k |-> "call", a |-> a, b |-> b]

\* std::accumulate that applies f(*first, init).
RECURSIVE std_accumulate_swapped(_, _, _, _)
std_accumulate_swapped(c, at, init, f) ==
    IF at >= End(c) THEN [ret |-> init, log |-> <<>>]
    ELSE LET rest == std_accumulate_swapped(c, at + 1, f_call(f, c[at], init), f)
         IN  [ret |-> rest.ret,
              log |-> <<Deref(0, at, End(c)), Call(c[at], init), Inc(0, at, End(c))>>
                          \o rest.log]

\* std::accumulate(first, last, init, f):
\*   for (; first != last; ++first) init = f(init, *first);  return init;
RECURSIVE std_accumulate(_, _, _, _)
std_accumulate(c, at, init, f) ==
    IF at >= End(c) THEN [ret |-> init, log |-> <<>>]
    ELSE LET rest == std_accumulate(c, at + 1, f_call(f, init, c[at]), f)
         IN  [ret |-> rest.ret,
              log |-> <<Deref(0, at, End(c)), Call(init, c[at]), Inc(0, at, End(c))>>
                          \o rest.log]

\* reduce(f, init) const &:  return std::accumulate(begin(), end(), init, f);
reduce_lref(c, f, init) ==
    LET acc == std_accumulate(c, 1, init, f)
    IN  [ret |-> acc.ret, self |-> c, log |-> acc.log]

\* reduce(f, init) &&: the same over move iterators.  The receiver is not moved
\* as a whole: it keeps its length, and its elements (of a trivially movable
\* type) their values.
reduce_rref(c, f, init) ==
    LET acc == std_accumulate(c, 1, init, f)
    IN  [ret |-> acc.ret, self |-> c, log |-> acc.log]

\* reduce(f) const:
\*   return std::accumulate(std::next(begin()), end(), *begin(), f);
\* On an empty container begin() is end(): it is incremented and dereferenced
\* all the same, and the value read there is no element.
reduce(c, f) ==
    LET first == std_next(0, c, 1, 1)
        init == IF Len(c) >= 1 THEN c[1] ELSE Indeterminate
        acc == std_accumulate(c, first.at, init, f)
    IN  [ret |-> acc.ret, self |-> c,
         log |-> first.log \o <<Deref(0, 1, End(c))>> \o acc.log]

\* What reduce(f) hands back when it returns at all from an empty container:
\* whatever stood where begin() pointed.
reduce_undefined == Elem \cup {Indeterminate}

\* ------------------------------------------------------------ sort
\* Compare comp: the set of the pairs <<a, b>> with comp(a, b).  Both std::sort
\* and list::sort require a strict weak ordering: irreflexive, transitive, and
\* with a transitive incomparability.
comp_call(comp, a, b) == <<a, b>> \in comp

IsStrictWeakOrder(comp) ==
    /\ \A a \in Elem : ~comp_call(comp, a, a)
    /\ \A a, b, c \in Elem :
        (comp_call(comp, a, b) /\ comp_call(comp, b, c)) => comp_call(comp, a, c)
    /\ \A a, b, c \in Elem :
        (/\ ~comp_call(comp, a, b) /\ ~comp_call(comp, b, a)
         /\ ~comp_call(comp, b, c) /\ ~comp_call(comp, c, b))
            => (~comp_call(comp, a, c) /\ ~comp_call(comp, c, a))

Comparators == {comp \in SUBSET (Elem \X Elem) : IsStrictWeakOrder(comp)}

\* std::less<value_type>, the default Compare.
std_less == {<<a, b>> \in Elem \X Elem : a < b}

\* The inner loop of the insertion sort: val moves left from position j while
\* it compares less than its left neighbour (and, guarded, while j > 1).
RECURSIVE linear_insert(_, _, _, _)
linear_insert(c, j, val, comp) ==
    IF j > 1 /\ comp_call(comp, val, c[j - 1])
    THEN linear_insert([c EXCEPT ![j] = c[j - 1]], j - 1, val, comp)
    ELSE [c EXCEPT ![j] = val]

\* std::sort(first, last, comp) on a range of at most 16 elements: an
\* insertion sort by positional moves, not stable in general.
RECURSIVE std_sort(_, _, _)
std_sort(c, i, comp) ==
    IF i >= End(c) THEN c
    ELSE std_sort(linear_insert(c, i, c[i], comp), i + 1, comp)

\* list::merge(x, comp): the front of x is taken while it compares less than
\* the front of *this, the front of *this otherwise (stable).
RECURSIVE list_merge(_, _, _)
list_merge(c, x, comp) ==
    IF x = <<>> THEN c
    ELSE IF c = <<>> THEN x
    ELSE IF comp_call(comp, Head(x), Head(c))
         THEN <<Head(x)>> \o list_merge(c, Tail(x), comp)
         ELSE <<Head(c)>> \o list_merge(Tail(c), x, comp)

\* SequenceContainer::sort(comp) of a list: a merge sort that relinks the
\* nodes; every element is merged into the sorted run of those before it.
RECURSIVE list_sort(_, _)
list_sort(c, comp) ==
    IF c = <<>> THEN <<>>
    ELSE list_merge(list_sort(SubSeq(c, 1, Len(c) - 1), comp), <<c[Len(c)]>>, comp)

\* sort_helper whose container-native path sorts with the default order.
sort_helper_ignores_comp(c, comp, random_access) ==
    IF random_access THEN std_sort(c, 1, comp) ELSE list_sort(c, std_less)

\* sort_helper(comp, std::true_type):   std::sort(begin(), end(), comp);
\* sort_helper(comp, std::false_type):  SequenceContainer::sort(comp);
sort_helper(c, comp, random_access) ==
    IF random_access THEN std_sort(c, 1, comp) ELSE list_sort(c, comp)

\* sort(comp):  sort_helper(comp, is_random_access<SequenceContainer>::type{});
\*              return *this;
\* The cursor moves of the sorting algorithm are its own and not recorded.
sort(c, comp, sh) ==
    LET sorted == sort_helper(c, comp, is_random_access(sh))
    IN  [ret |-> sorted, self |-> sorted, log |-> <<>>]

\* ------------------------------------------------------------ flatten
\* The loop of flatten() inserting at flattened.begin().
RECURSIVE flatten_loop_front(_, _, _)
flatten_loop_front(c, at, flattened) ==
    IF at >= End(c) THEN [ret |-> flattened, log |-> <<>>]
    ELSE LET copy == range_copy(at, c[at], 1, End(c[at]))
             rest == flatten_loop_front(c, at + 1, copy.ret \o flattened)
         IN  [ret |-> rest.ret,
              log |-> <<Deref(0, at, End(c))>> \o copy.log
                          \o <<Inc(0, at, End(c))>> \o rest.log]

\* flatten() const &:
\*   for (inner : *this) flattened.insert(flattened.end(), inner.begin(), inner.end());
\* The cursor over the i-th inner container is cursor i.
RECURSIVE flatten_loop(_, _, _)
flatten_loop(c, at, flattened) ==
    IF at >= End(c) THEN [ret |-> flattened, log |-> <<>>]
    ELSE LET copy == range_copy(at, c[at], 1, End(c[at]))
             rest == flatten_loop(c, at + 1, flattened \o copy.ret)
         IN  [ret |-> rest.ret,
              log |-> <<Deref(0, at, End(c))>> \o copy.log
                          \o <<Inc(0, at, End(c))>> \o rest.log]

flatten_lref(c) ==
    LET loop == flatten_loop(c, 1, <<>>)
    IN  [ret |-> loop.ret, self |-> c, log |-> loop.log]

\* flatten() &&: the same loop over move iterators.  The receiver is not moved
\* as a whole: every inner container keeps its length, and its elements (of a
\* trivially movable type) their values.
flatten_rref(c) ==
    LET loop == flatten_loop(c, 1, <<>>)
    IN  [ret |-> loop.ret, self |-> c, log |-> loop.log]

\* ------------------------------------------------------------ unzip
\* unzip() const:  for (item : *this) { first.emplace(.., item.first);
\*                                      second.emplace(.., item.second); }
RECURSIVE unzip_loop(_, _, _)
unzip_loop(c, at, unzipped) ==
    IF at >= End(c) THEN [ret |-> unzipped, log |-> <<>>]
    ELSE LET rest == unzip_loop(c, at + 1,
                                <<Append(unzipped[1], c[at][1]),
                                  Append(unzipped[2], c[at][2])>>)
         IN  [ret |-> rest.ret,
              log |-> <<Deref(0, at, End(c)), Inc(0, at, End(c))>> \o rest.log]

unzip(c) ==
    LET loop == unzip_loop(c, 1, <<<<>>, <<>>>>)
    IN  [ret |-> loop.ret, self |-> c, log |-> loop.log]

\* ------------------------------------------------------------ zip
\* The loop of zip that goes on while either cursor is short of its end.
RECURSIVE zip_loop_either(_, _, _, _, _)
zip_loop_either(c, other, first_iter, second_iter, zipped) ==
    IF ~(first_iter < End(c) \/ second_iter < End(other))
    THEN [ret |-> zipped, log |-> <<>>]
    ELSE LET x == IF first_iter <= Len(c) THEN c[first_iter] ELSE Indeterminate
             y == IF second_iter <= Len(other) THEN other[second_iter]
                  ELSE Indeterminate
             rest == zip_loop_either(c, other, first_iter + 1, second_iter + 1,
                                     Append(zipped, <<x, y>>))
         IN  [ret |-> rest.ret,
              log |-> <<Deref(0, first_iter, End(c)),
                        Deref(1, second_iter, End(other)),
                        Inc(0, first_iter, End(c)),
                        Inc(1, second_iter, End(other))>> \o rest.log]

\* zip(other) const:
\*   for (; first_iter != end() && second_iter != other.end();
\*        std::advance(first_iter, 1), std::advance(second_iter, 1))
\*       zipped.emplace(zipped.end(), *first_iter, *second_iter);
RECURSIVE zip_loop(_, _, _, _, _)
zip_loop(c, other, first_iter, second_iter, zipped) ==
    IF ~(first_iter # End(c) /\ second_iter # End(other))
    THEN [ret |-> zipped, log |-> <<>>]
    ELSE LET rest == zip_loop(c, other, first_iter + 1, second_iter + 1,
                              Append(zipped, <<c[first_iter], other[second_iter]>>))
         IN  [ret |-> rest.ret,
              log |-> <<Deref(0, first_iter, End(c)),
                        Deref(1, second_iter, End(other)),
                        Inc(0, first_iter, End(c)),
                        Inc(1, second_iter, End(other))>> \o rest.log]

\* zip(other) that emplaces (*second_iter, *first_iter).
zip_swapped(c, other) ==
    LET loop == zip_loop(other, c, 1, 1, <<>>)
    IN  [ret |-> loop.ret, self |-> c, log |-> loop.log]

zip(c, other) ==
    LET loop == zip_loop(c, other, 1, 1, <<>>)
    IN  [ret |-> loop.ret, self |-> c, log |-> loop.log]

\* ------------------------------------------------------------ zip_n
\* std::distance(first, last): the number of increments from first to last.
RECURSIVE std_distance(_, _, _)
std_distance(id, c, at) ==
    IF at >= End(c) THEN [n |-> 0, log |-> <<>>]
    ELSE LET rest == std_distance(id, c, at + 1)
         IN  [n |-> rest.n + 1, log |-> <<Inc(id, at, End(c))>> \o rest.log]

\* container_size that counts by traversal whatever the container offers.
container_size_counts(id, c, sh) == std_distance(id, c, 1)

\* detail::container_size(c): c.size() where the container has one (the
\* overload taking int is preferred), std::distance(c.begin(), c.end()) else.
container_size(id, c, sh) ==
    IF has_size(sh) THEN [n |-> Len(c), log |-> <<>>] ELSE std_distance(id, c, 1)

\* The containers of a zip_n call, the receiver first: input 0 is *this,
\* input k the k-th argument.
Inputs(c, containers) == [k \in 0..Len(containers) |-> IF k = 0 THEN c ELSE containers[k]]

\* std::max_element in the place of std::min_element.
max_element(sizes) ==
    CHOOSE m \in {sizes[k] : k \in DOMAIN sizes} : \A k \in DOMAIN sizes : m >= sizes[k]

\* *std::min_element(sizes.begin(), sizes.end())
min_element(sizes) ==
    CHOOSE m \in {sizes[k] : k \in DOMAIN sizes} : \A k \in DOMAIN sizes : m <= sizes[k]

\* detail::get_iter_tuple_value(iter_tuple): the tuple of *iter of every cursor.
get_iter_tuple_value(ins, iter_tuple) ==
    [j \in 1..Cardinality(DOMAIN ins) |->
        IF iter_tuple[j - 1] <= Len(ins[j - 1])
        THEN ins[j - 1][iter_tuple[j - 1]] ELSE Indeterminate]

\* detail::advance_iter_tuple(iter_tuple): std::advance(iter, 1) of every cursor.
advance_iter_tuple(iter_tuple) == [k \in DOMAIN iter_tuple |-> iter_tuple[k] + 1]

\* The events of one step of the loop: every cursor read, then every cursor
\* incremented.
step_log(ins, iter_tuple) ==
    [j \in 1..Cardinality(DOMAIN ins) |->
        Deref(j - 1, iter_tuple[j - 1], End(ins[j - 1]))]
    \o [j \in 1..Cardinality(DOMAIN ins) |->
        Inc(j - 1, iter_tuple[j - 1], End(ins[j - 1]))]

\* for (i = 0; i < smallest; ++i) {
\*     zipped.emplace(zipped.end(), detail::get_iter_tuple_value(iter_tuple));
\*     detail::advance_iter_tuple(iter_tuple); }
RECURSIVE zip_n_loop(_, _, _, _, _)
zip_n_loop(ins, smallest, i, iter_tuple, zipped) ==
    IF ~(i < smallest) THEN [ret |-> zipped, log |-> <<>>]
    ELSE LET rest == zip_n_loop(ins, smallest, i + 1, advance_iter_tuple(iter_tuple),
                                Append(zipped, get_iter_tuple_value(ins, iter_tuple)))
         IN  [ret |-> rest.ret, log |-> step_log(ins, iter_tuple) \o rest.log]

RECURSIVE concat_logs(_, _)
concat_logs(sizes, k) ==
    IF k \notin DOMAIN sizes THEN <<>> ELSE sizes[k].log \o concat_logs(sizes, k + 1)

\* zip_n(containers...) const; shs: the containers the arguments wrap.
zip_n(c, sh, containers, shs) ==
    LET ins == Inputs(c, containers)
        sizes == [k \in DOMAIN ins |->
                    container_size(k, ins[k], IF k = 0 THEN sh ELSE shs[k])]
        smallest == min_element([k \in DOMAIN ins |-> sizes[k].n])
        loop == zip_n_loop(ins, smallest, 0, [k \in DOMAIN ins |-> 1], <<>>)
    IN  [ret |-> loop.ret, self |-> c, log |-> concat_logs(sizes, 0) \o loop.log]

\* ------------------------------------------------------------ strings
\* cec::string: a sequence of characters; " " is the one whitespace character.
Chars == {"a", "b", " "}
Strings == SeqsUpTo(Chars, MaxStr)

\* The containers of strings handed to join, and the strings joining them.
Delimiters == SeqsUpTo(Chars, MaxDelim)
StringSeqs == SeqsUpTo(SeqsUpTo(Chars, MaxPartLen), MaxParts)

\* std::regex delimiter: the patterns [class] (one character of the class)
\* and [class]+ (a longest run of characters of the class).
Patterns == [class : (SUBSET Chars) \ {{}}, plus : BOOLEAN]

\* std::regex("\\S+"), the default pattern: a run of non-whitespace.
DefaultPattern == [class |-> Chars \ {" "}, plus |-> TRUE]

\* The end of the match that starts at position `first`: one character, or
\* (greedy) the whole run of characters of the class.
RECURSIVE match_end(_, _, _)
match_end(c, first, pattern) ==
    IF pattern.plus /\ first + 1 <= Len(c) /\ c[first + 1] \in pattern.class
    THEN match_end(c, first + 1, pattern)
    ELSE first + 1

\* std::regex_search from position `from`: the leftmost match [first, last),
\* or none.
RECURSIVE regex_search(_, _, _)
regex_search(c, from, pattern) ==
    IF from > Len(c) THEN [found |-> FALSE, first |-> End(c), last |-> End(c)]
    ELSE IF c[from] \in pattern.class
         THEN [found |-> TRUE, first |-> from, last |-> match_end(c, from, pattern)]
         ELSE regex_search(c, from + 1, pattern)

\* split(delimiter) const:
\*   auto iter = std::sregex_iterator(begin(), end(), delimiter);
\*   for (; iter != std::sregex_iterator{}; ++iter)
\*       container.emplace(container.end(), iter->str());
\* The iterator stands at a match; ++iter searches on from the match's end.
RECURSIVE split_loop(_, _, _, _)
split_loop(c, from, delimiter, container) ==
    LET iter == regex_search(c, from, delimiter)
    IN  IF ~iter.found THEN container
        ELSE split_loop(c, iter.last, delimiter,
                        Append(container, SubSeq(c, iter.first, iter.last - 1)))

split(c, delimiter) ==
    [ret |-> split_loop(c, 1, delimiter, <<>>), self |-> c, log |-> <<>>]

\* The loop of join that appends the delimiter after every string.
RECURSIVE join_loop_trailing(_, _, _, _)
join_loop_trailing(c, strings, iter, joined) ==
    IF ~(iter # End(strings))
    THEN [ret |-> joined, at |-> iter, log |-> <<>>]
    ELSE LET rest == join_loop_trailing(c, strings, iter + 1,
                                        joined \o (strings[iter] \o c))
         IN  [ret |-> rest.ret, at |-> rest.at,
              log |-> <<Deref(1, iter, End(strings)), Inc(1, iter, End(strings))>>
                          \o rest.log]

\* for (; std::next(iter) != strings.end(); ++iter) joined += (*iter + *this);
\* std::next increments a copy of iter.
RECURSIVE join_loop(_, _, _, _)
join_loop(c, strings, iter, joined) ==
    IF ~(iter + 1 # End(strings))
    THEN [ret |-> joined, at |-> iter, log |-> <<Inc(1, iter, End(strings))>>]
    ELSE LET rest == join_loop(c, strings, iter + 1, joined \o (strings[iter] \o c))
         IN  [ret |-> rest.ret, at |-> rest.at,
              log |-> <<Inc(1, iter, End(strings)), Deref(1, iter, End(strings)),
                        Inc(1, iter, End(strings))>> \o rest.log]

\* join(strings) const:
\*   if (strings.empty()) return joined;
\*   auto iter = strings.begin();  <the loop>;  joined += *iter;  return joined;
join(c, strings) ==
    IF strings = <<>> THEN [ret |-> <<>>, self |-> c, log |-> <<>>]
    ELSE LET loop == join_loop(c, strings, 1, <<>>)
             last == IF loop.at <= Len(strings) THEN strings[loop.at] ELSE <<>>
         IN  [ret |-> loop.ret \o last, self |-> c,
              log |-> loop.log \o <<Deref(1, loop.at, End(strings))>>]

\* ------------------------------------------------------------ types
\* A type: a name and, for a specialization of a template, its arguments.
Type(name, args) == [name |-> name, args |-> args]
Scalar(name) == Type(name, <<>>)

\* The element types containers are rebound to.
ElemTypes == {"int", "double"}

StdAllocator(T) == Type("std::allocator", <<T>>)
CharTraits == Type("std::char_traits", <<Scalar("char")>>)

\* std::vector<T>, std::list<T>, std::deque<T>, std::forward_list<T>: the
\* templates the aliases cec::vector, cec::list, cec::deque and
\* cec::forward_list wrap, with their default allocator.
StdContainer(name, T) == Type(name, <<T, StdAllocator(T)>>)
StdTemplates == {"std::vector", "std::list", "std::deque", "std::forward_list"}

\* cec::extendable_basic_string<CharT, Traits, Allocator>
BasicString(CharT) ==
    Type("cec::extendable_basic_string", <<CharT, CharTraits, StdAllocator(CharT)>>)

\* rebind_setup::MyList: no template, other<Rebind> = std::list<Rebind>.
MyList == Type("MyList", <<>>)
\* rebind_setup::MyTemplateList<T>: other<Rebind> = std::vector<Rebind>.
MyTemplateList(T) == Type("MyTemplateList", <<T>>)

\* A container family Container<T, Aux, Allocator> of the user, with no `other`
\* and allocator_type = Allocator: what the partial specialization for
\* template <typename...> class Container accepts.  Aux is any type.
AuxTypes == {CharTraits} \cup {StdAllocator(Scalar(e)) : e \in ElemTypes}
UserContainer(T, Aux) == Type("UserContainer", <<T, Aux, StdAllocator(T)>>)

ContainerTypes ==
    {StdContainer(n, Scalar(e)) : n \in StdTemplates, e \in ElemTypes}
    \cup {BasicString(Scalar("char")), MyList}
    \cup {MyTemplateList(Scalar(e)) : e \in ElemTypes}
    \cup {UserContainer(Scalar(e), a) : e \in ElemTypes, a \in AuxTypes}

\* Container is a specialization Container<Args...> of a template whose
\* parameters are all types.
is_template(Container) == Container.name # "MyList"

\* Container declares the member template `other`.
declares_other(Container) == Container.name \in {"MyList", "MyTemplateList"}

\* typename Container::template other<Rebind>
other(Container, Rebind) ==
    IF Container.name = "MyList" THEN StdContainer("std::list", Rebind)
    ELSE StdContainer("std::vector", Rebind)

\* typename Container::allocator_type: the Allocator argument; MyTemplateList<T>
\* inherits std::list<T>'s.
allocator_type(Container) ==
    IF Container.name = "MyTemplateList" THEN StdAllocator(Container.args[1])
    ELSE Container.args[Len(Container.args)]

\* std::allocator_traits<Allocator>::rebind_alloc<Rebind>: Alloc<U, Args...>
\* becomes Alloc<Rebind, Args...>.
rebind_alloc(Allocator, Rebind) == [Allocator EXCEPT !.args[1] = Rebind]

\* rebind_alloc_if_matches that never finds the allocator.
rebind_alloc_never(HeadT, Allocator, Rebind) == HeadT

\* detail::rebind_alloc_if_matches<Head, Allocator, Rebind>::type
rebind_alloc_if_matches(HeadT, Allocator, Rebind) ==
    IF HeadT = Allocator THEN rebind_alloc(Allocator, Rebind) ELSE HeadT

\* rebind_sequence_container_helper whose base case keeps the old value type.
RECURSIVE rebind_helper_keeps_old(_, _, _, _)
rebind_helper_keeps_old(Container, Rebind, Unchecked, Checked) ==
    IF Unchecked = <<>>
    THEN Type(Container.name, <<Rebind>> \o Checked)
    ELSE rebind_helper_keeps_old(
             Container, Rebind, Tail(Unchecked),
             Append(Checked, IF Head(Unchecked) = Container.args[Len(Container.args)]
                             THEN [Head(Unchecked) EXCEPT !.args[1] = Rebind]
                             ELSE Head(Unchecked)))

\* detail::rebind_sequence_container_helper<Container, Rebind, Unchecked, Checked>:
\* the loop moves the head of Unchecked to the end of Checked, rebound if it
\* is the allocator; the base case drops the first checked argument for Rebind.
RECURSIVE rebind_sequence_container_helper(_, _, _, _)
rebind_sequence_container_helper(Container, Rebind, Unchecked, Checked) ==
    IF Unchecked = <<>>
    THEN Type(Container.name, <<Rebind>> \o Tail(Checked))
    ELSE rebind_sequence_container_helper(
             Container, Rebind, Tail(Unchecked),
             Append(Checked, rebind_alloc_if_matches(
                                 Head(Unchecked), allocator_type(Container), Rebind)))

\* detail::has_other<Container, Rebind>(0): whether
\* typename Container::template other<Rebind>{} is a valid expression.
has_other(Container, Rebind) == declares_other(Container)

\* rebind_prefer_other that substitutes structurally whatever has_other says.
rebind_prefer_structure(Container, Rebind, has) ==
    rebind_sequence_container_helper(Container, Rebind, Container.args, <<>>)

\* detail::rebind_prefer_other<Container, Rebind, has_other, Args...>::other
rebind_prefer_other(Container, Rebind, has) ==
    IF has THEN other(Container, Rebind)
    ELSE rebind_sequence_container_helper(Container, Rebind, Container.args, <<>>)

\* detail::rebind_sequence_container<Container>::other<Rebind>
rebind_sequence_container(Container, Rebind) ==
    IF is_template(Container)
    THEN rebind_prefer_other(Container, Rebind, has_other(Container, Rebind))
    ELSE other(Container, Rebind)

\* ------------------------------------------------------------ state
VARIABLES
    kind,     \* what the receiver holds: "flat" values, "nested" containers, "pairs"
    shape,    \* the container the receiver wraps
    self,     \* the receiver's elements
    pre,      \* the receiver's elements before the last call
    op,       \* the last call's operation ("construct" at first)
    form,     \* the receiver's value category in the last call
    arg,      \* the last call's argument
    ret,      \* the last call's return value
    status,   \* "returned", or "crashed" (the call did not return)
    log,      \* the cursor events of the last call
    ty0,      \* a container type
    ty,       \* the type the rebinds of ty0 have produced so far
    path,     \* the element types ty0 was rebound to, in order
    env       \* the containers the calling code names, as it constructed them

vars ==
    <<kind, shape, self, pre, op, form, arg, ret, status, log, ty0, ty, path, env>>
typeVars == <<ty0, ty, path>>
facadeVars == <<kind, shape, self, pre, op, form, arg, ret, status, log>>

\* The value category of the receiver: the overload a ref-qualified operation
\* selects.  An operation that is only const-qualified has one form.
Forms == {"lvalue", "rvalue"}

\* The receiver was constructed (or assigned) and not yet used in a call.
Fresh == op = "construct"

\* A call that ran to its return statement.
Returns(o, f, a, r) ==
    /\ op' = o /\ form' = f /\ arg' = a /\ pre' = self
    /\ status' = "returned" /\ ret' = r.ret /\ self' = r.self /\ log' = r.log
    /\ UNCHANGED <<kind, shape, typeVars, env>>

\* A call that ran into undefined behaviour: it crashes, or returns one of
\* `outs` and leaves the receiver as `left`.
Undefined(o, f, a, r, outs, left) ==
    /\ op' = o /\ form' = f /\ arg' = a /\ pre' = self /\ log' = r.log
    /\ \/ status' = "crashed" /\ ret' = <<>> /\ self' = self
       \/ /\ status' = "returned" /\ self' = left
          /\ \E x \in outs : ret' = x
    /\ UNCHANGED <<kind, shape, typeVars, env>>

TakeNums == 0..(MaxLen + 1)

Take ==
    /\ Fresh /\ kind = "flat"
    /\ \E f \in Forms, num \in TakeNums :
        LET r == IF f = "lvalue" THEN take_lref(self, num) ELSE take_rref(self, num)
        IN  IF UndefinedBehaviour(r.log)
            THEN Undefined("take", f, num, r, take_undefined(self, num, shape), r.self)
            ELSE Returns("take", f, num, r)

TakeWhile ==
    /\ Fresh /\ kind = "flat"
    /\ \E f \in Forms, p \in Predicates :
        Returns("take_while", f, p,
                IF f = "lvalue" THEN take_while_lref(self, p)
                                ELSE take_while_rref(self, p))

Filter ==
    /\ Fresh /\ kind = "flat"
    /\ \E f \in Forms, p \in Predicates :
        Returns("filter", f, p,
                IF f = "lvalue" THEN filter_lref(self, p) ELSE filter_rref(self, p))

Concat ==
    /\ Fresh /\ kind = "flat"
    /\ \E f \in Forms, container \in ArgSeqs :
        Returns("concat", f, container,
                IF f = "lvalue" THEN concat_lref(self, container)
                                ELSE concat_rref(self, container))

Map ==
    /\ Fresh /\ kind = "flat"
    /\ \E f \in Forms, fn \in UnaryFunctions :
        Returns("map", f, fn,
                IF f = "lvalue" THEN map_lref(self, fn) ELSE map_rref(self, fn))

\* reduce(f) is const and not ref-qualified: one form for every receiver.
Reduce ==
    /\ Fresh /\ kind = "flat"
    /\ \E fn \in BinaryFunctions :
        LET r == reduce(self, fn)
        IN  IF UndefinedBehaviour(r.log)
            THEN Undefined("reduce", "const", fn, r, reduce_undefined, r.self)
            ELSE Returns("reduce", "const", fn, r)

ReduceSeed ==
    /\ Fresh /\ kind = "flat"
    /\ \E f \in Forms, fn \in BinaryFunctions, init \in Elem :
        Returns("reduce_seed", f, [f |-> fn, init |-> init],
                IF f = "lvalue" THEN reduce_lref(self, fn, init)
                                ELSE reduce_rref(self, fn, init))

\* sort is not const: the receiver is an lvalue, and is returned by reference.
Sort ==
    /\ Fresh /\ kind = "flat"
    /\ \E comp \in Comparators :
        Returns("sort", "lvalue", comp, sort(self, comp, shape))

Flatten ==
    /\ Fresh /\ kind = "nested"
    /\ \E f \in Forms :
        Returns("flatten", f, <<>>,
                IF f = "lvalue" THEN flatten_lref(self) ELSE flatten_rref(self))

Unzip ==
    /\ Fresh /\ kind = "pairs"
    /\ Returns("unzip", "const", <<>>, unzip(self))

Zip ==
    /\ Fresh /\ kind = "flat"
    /\ \E container \in ArgSeqs :
        Returns("zip", "const", container, zip(self, container))

ZipArities == {1, 2}

ZipN ==
    /\ Fresh /\ kind = "flat"
    /\ \E n \in ZipArities :
        \E containers \in [1..n -> ArgSeqs], shs \in [1..n -> ArgShapes] :
            Returns("zip_n", "const", [containers |-> containers, shs |-> shs],
                    zip_n(self, shape, containers, shs))

EraseAll ==
    /\ Fresh /\ kind = "flat"
    /\ \E value \in Elem :
        Returns("erase_all", "lvalue", value, erase_all(self, value))

\* c.erase_all(v).erase_all(value): the second call's receiver is what the
\* first call returned, the receiver itself if that is a reference and a
\* temporary copy of it otherwise.
EraseAllChained ==
    /\ kind = "flat" /\ op = "erase_all" /\ status = "returned"
    /\ \E value \in Elem :
        LET r == erase_all(ret, value)
        IN  /\ op' = "erase_all.erase_all" /\ form' = "lvalue"
            /\ arg' = <<arg, value>> /\ pre' = pre
            /\ status' = "returned" /\ ret' = r.ret /\ log' = r.log
            /\ self' = IF returns_reference("erase_all") THEN r.self ELSE self
            /\ UNCHANGED <<kind, shape, typeVars, env>>

\* c.erase_if(p): the receiver is modified and a reference to it returned.
EraseIf ==
    /\ Fresh /\ kind = "flat"
    /\ \E p \in Predicates :
        LET erased == erase_if(self, p)
        IN  Returns("erase_if", "lvalue", p,
                    [ret |-> erased.self, self |-> erased.self, log |-> erased.log])

Contains ==
    /\ Fresh /\ kind = "flat"
    /\ \E value \in Elem :
        Returns("contains", "const", value, contains(self, value))

Count ==
    /\ Fresh /\ kind = "flat"
    /\ \E value \in Elem :
        Returns("count", "const", value, count(self, value))

CountIf ==
    /\ Fresh /\ kind = "flat"
    /\ \E p \in Predicates :
        Returns("count_if", "const", p, count_if(self, p))

\* The operations that return a container of the receiver's own type.
SameType == {"take", "take_while", "filter", "concat", "map"}

\* The returned container is the receiver of the next call, as in
\* f.map(...).take(2) or c = c.filter(p).
Chain ==
    /\ kind = "flat" /\ op \in SameType /\ status = "returned"
    /\ ret \in FlatSeqs
    /\ self' = ret /\ pre' = ret /\ op' = "construct" /\ form' = "lvalue"
    /\ arg' = <<>> /\ ret' = <<>> /\ status' = "returned" /\ log' = <<>>
    /\ UNCHANGED <<kind, shape, typeVars, env>>

\* The receivers: cec::vector, cec::deque or cec::list of values, a cec::list
\* of containers, a cec::vector of pairs.
InitFacade ==
    /\ \/ kind = "flat" /\ shape \in Shapes /\ self \in FlatSeqs
       \/ kind = "nested" /\ shape = "list" /\ self \in NestedSeqs
       \/ kind = "pairs" /\ shape = "vector" /\ self \in PairSeqs
    /\ pre = self /\ op = "construct" /\ form = "lvalue" /\ arg = <<>>
    /\ ret = <<>> /\ status = "returned" /\ log = <<>>
    /\ env = <<>>

Init ==
    /\ InitFacade
    /\ ty0 = StdContainer("std::vector", Scalar("int")) /\ ty = ty0 /\ path = <<>>

Next ==
    \/ Take
    \/ TakeWhile
    \/ Filter
    \/ Concat
    \/ Map
    \/ Reduce
    \/ ReduceSeed
    \/ Sort
    \/ Flatten
    \/ Unzip
    \/ Zip
    \/ ZipN
    \/ EraseAll
    \/ EraseAllChained
    \/ EraseIf
    \/ Contains
    \/ Count
    \/ CountIf
    \/ Chain

Spec == Init /\ [][Next]_vars

\* ------------------------------------------------------------ chained concat
\* The calling code holds three containers a, b and c and evaluates
\* (a.concat(b)).concat(c) and a.concat(b.concat(c)), one call at a time.  The
\* receiver of a call is a named container (an lvalue, or an rvalue under
\* std::move) or the temporary the call before returned (an rvalue, or an
\* lvalue once it is bound to a name).
InitConcat ==
    /\ env \in [a : ArgSeqs, b : ArgSeqs, c : ArgSeqs]
    /\ kind = "flat" /\ shape = "vector" /\ self = env.a /\ pre = self
    /\ op = "construct" /\ form = "lvalue" /\ arg = <<>> /\ ret = <<>>
    /\ status = "returned" /\ log = <<>>
    /\ ty0 = StdContainer("std::vector", Scalar("int")) /\ ty = ty0 /\ path = <<>>

\* The call receiver.concat(container) of the expression `o`.
ConcatCall(o, f, receiver, container) ==
    LET r == IF f = "lvalue" THEN concat_lref(receiver, container)
                             ELSE concat_rref(receiver, container)
    IN  /\ op' = o /\ form' = f /\ arg' = container /\ pre' = receiver
        /\ status' = "returned" /\ ret' = r.ret /\ self' = r.self /\ log' = r.log
        /\ UNCHANGED <<kind, shape, typeVars, env>>

\* a.concat(b)
ConcatLeftInner ==
    /\ Fresh
    /\ \E f \in Forms : ConcatCall("a.concat(b)", f, env.a, env.b)

\* (a.concat(b)).concat(c): the receiver is what a.concat(b) returned.
ConcatLeftOuter ==
    /\ op = "a.concat(b)"
    /\ \E f \in Forms : ConcatCall("(a.concat(b)).concat(c)", f, ret, env.c)

\* b.concat(c)
ConcatRightInner ==
    /\ Fresh
    /\ \E f \in Forms : ConcatCall("b.concat(c)", f, env.b, env.c)

\* a.concat(b.concat(c)): the argument is what b.concat(c) returned.
ConcatRightOuter ==
    /\ op = "b.concat(c)"
    /\ \E f \in Forms : ConcatCall("a.concat(b.concat(c))", f, env.a, ret)

NextConcat ==
    \/ ConcatLeftInner
    \/ ConcatLeftOuter
    \/ ConcatRightInner
    \/ ConcatRightOuter

ConcatSpec == InitConcat /\ [][NextConcat]_vars

\* ------------------------------------------------------------ cec::string
\* The receiver is a cec::string; split and join are const.
InitString ==
    /\ kind = "string" /\ shape = "string" /\ self \in Strings /\ pre = self
    /\ op = "construct" /\ form = "lvalue" /\ arg = <<>> /\ ret = <<>>
    /\ status = "returned" /\ log = <<>> /\ env = <<>>
    /\ ty0 = BasicString(Scalar("char")) /\ ty = ty0 /\ path = <<>>

Split ==
    /\ Fresh /\ kind = "string"
    /\ \E delimiter \in Patterns :
        Returns("split", "const", delimiter, split(self, delimiter))

Join ==
    /\ Fresh /\ kind = "string" /\ self \in Delimiters
    /\ \E strings \in StringSeqs :
        Returns("join", "const", strings, join(self, strings))

NextString ==
    \/ Split
    \/ Join

StringSpec == InitString /\ [][NextString]_vars

\* ------------------------------------------------------------ rebinding
\* The type-level part on its own: a container type is rebound to one element
\* type after another.
InitRebind ==
    /\ ty0 \in ContainerTypes /\ ty = ty0 /\ path = <<>>
    /\ kind = "flat" /\ shape = "vector" /\ self = <<>> /\ pre = <<>>
    /\ op = "construct" /\ form = "lvalue" /\ arg = <<>> /\ ret = <<>>
    /\ status = "returned" /\ log = <<>> /\ env = <<>>

RebindStep ==
    /\ Len(path) < MaxRebinds
    /\ \E T \in ElemTypes :
        /\ ty' = rebind_sequence_container(ty, Scalar(T))
        /\ path' = Append(path, Scalar(T))
    /\ UNCHANGED <<ty0, facadeVars, env>>

NextRebind == RebindStep

RebindSpec == InitRebind /\ [][NextRebind]_vars

\* ------------------------------------------------------------ claims
\* What a call may hand back: its return value, or, when it runs into
\* undefined behaviour, any of `outs`.
Outcomes(r, outs) == IF UndefinedBehaviour(r.log) THEN outs ELSE {r.ret}

\* The outcomes of the copying form of a type-preserving operation.
CopyingOutcomes(o, c, a, sh) ==
    CASE o = "take" -> Outcomes(take_lref(c, a), take_undefined(c, a, sh))
      [] o = "take_while" -> {take_while_lref(c, a).ret}
      [] o = "filter" -> {filter_lref(c, a).ret}
      [] o = "concat" -> {concat_lref(c, a).ret}
      [] OTHER -> {map_lref(c, a).ret}

\* C1: for filter, take, take_while, concat and map (to the element type),
\* the in-place form called on an rvalue receiver returns, element for element,
\* what the copying form returns for an lvalue receiver of the same contents.
C1_InPlaceEqualsCopying ==
    (op \in SameType /\ form = "rvalue") =>
        /\ status = "returned"
        /\ \A x \in CopyingOutcomes(op, pre, arg, shape) : ret = x

\* C1 without the calls that take more elements than the receiver holds.
C1_InPlaceEqualsCopyingWithinLength ==
    (op \in SameType /\ form = "rvalue" /\ (op = "take" => arg <= Len(pre))) =>
        /\ status = "returned"
        /\ \A x \in CopyingOutcomes(op, pre, arg, shape) : ret = x

\* The operations of C2.
Preserving ==
    {"concat", "filter", "map", "take", "take_while", "flatten", "zip", "zip_n", "unzip"}

\* C2: concat, filter, map, take, take_while, flatten, zip, zip_n and unzip,
\* called on a receiver that must be preserved (an lvalue or const receiver),
\* leave the receiver's elements as they were before the call.
C2_ReceiverPreserved ==
    (op \in Preserving /\ form \in {"lvalue", "const"}) => self = pre

\* A copying filter returned something else than the receiver, which is as
\* it was.
C2_Witness ==
    /\ op = "filter" /\ form = "lvalue" /\ status = "returned"
    /\ Len(pre) = MaxLen /\ Len(ret) = 1 /\ self = pre

\* C3: reduce without a seed on an empty container ends in a defined failure:
\* the begin cursor of the empty container is not dereferenced and no cursor
\* is advanced past the container's end.
C3_ReduceEmptyFailsDefined ==
    (op = "reduce" /\ Len(pre) = 0) =>
        /\ status = "failed"
        /\ ~DereferencedEnd(log)
        /\ ~AdvancedPastEnd(log)

\* C4: take(n) with n greater than the receiver's length is a defined
\* boundary case: in both forms no cursor is advanced past the receiver's end
\* and the result holds only elements of the receiver.
C4_TakeBeyondLengthDefined ==
    (op = "take" /\ arg > Len(pre)) =>
        /\ status = "returned"
        /\ ~AdvancedPastEnd(log)
        /\ Range(ret) \subseteq Range(pre)

\* C5: for 0 <= n <= length, take(n) returns exactly the first n elements of
\* the receiver in their order; take(0) returns an empty container.
C5_TakeFirstN ==
    (op = "take" /\ arg <= Len(pre)) =>
        /\ status = "returned"
        /\ Len(ret) = arg
        /\ \A i \in 1..arg : ret[i] = pre[i]
        /\ (arg = 0 => ret = <<>>)

\* Both forms took a proper, non-empty prefix.
C5_Witness ==
    /\ op = "take" /\ arg = 2 /\ Len(pre) = MaxLen /\ pre[1] # pre[2]
    /\ ret = <<pre[1], pre[2]>>

\* C6: a.zip(b) has length min(len(a), len(b)) and its i-th element is the
\* pair (a[i], b[i]); elements beyond the shorter input never appear.
C6_ZipTruncates ==
    op = "zip" =>
        /\ status = "returned"
        /\ Len(ret) = Min(Len(pre), Len(arg))
        /\ \A i \in 1..Len(ret) : ret[i] = <<pre[i], arg[i]>>

\* A longer receiver was zipped with a shorter, non-empty argument.
C6_Witness ==
    /\ op = "zip" /\ Len(pre) = MaxLen /\ Len(arg) = MaxLen - 1 /\ Len(arg) >= 1
    /\ Len(ret) = Len(arg) /\ ret[1][1] # ret[1][2]

\* The smallest of the lengths of the receiver and the arguments of zip_n.
Shortest(c, containers) ==
    CHOOSE m \in {Len(c)} \cup {Len(containers[k]) : k \in 1..Len(containers)} :
        /\ m <= Len(c)
        /\ \A k \in 1..Len(containers) : m <= Len(containers[k])

\* C7: zip_n of a receiver and N >= 1 containers returns exactly m tuples, m
\* the minimum of the N + 1 lengths, the i-th tuple holding the i-th element
\* of the receiver, then the i-th element of each argument in argument order;
\* whether a length is read from size() or counted by traversal.
C7_ZipNAligned ==
    op = "zip_n" =>
        /\ status = "returned"
        /\ Len(ret) = Shortest(pre, arg.containers)
        /\ \A i \in 1..Len(ret) :
            /\ Len(ret[i]) = Len(arg.containers) + 1
            /\ ret[i][1] = pre[i]
            /\ \A k \in 1..Len(arg.containers) : ret[i][k + 1] = arg.containers[k][i]

\* Three inputs of three lengths, one measured with size() and one counted.
C7_Witness ==
    /\ op = "zip_n" /\ Len(arg.containers) = 2
    /\ arg.shs = <<"list", "forward_list">>
    /\ Len(pre) = MaxLen /\ Len(arg.containers[1]) = 2 /\ Len(arg.containers[2]) = 1
    /\ Len(ret) = 1

\* The rebind step from ty to ty'.
Rebound == path' # path
Target == path'[Len(path')]

\* C8: a container type that declares its own family mapping other<T>,
\* template or not, is rebound to exactly that mapping's result and never to
\* the structurally substituted type; structural substitution (the same
\* template, the first argument replaced) is used only when none is declared.
C8_FamilyMappingWins ==
    [][Rebound =>
        /\ declares_other(ty) => ty' = other(ty, Target)
        /\ declares_other(ty) => ty'.name # ty.name
        /\ (ty'.name = ty.name /\ ty'.args # <<>> /\ ty'.args[1] = Target)
               => ~declares_other(ty)]_vars

\* A template that declares other<T> was rebound through it.
C8_Witness ==
    /\ path = <<Scalar("double")>>
    /\ ty0 = MyTemplateList(Scalar("int"))
    /\ ty = StdContainer("std::vector", Scalar("double"))

\* C9: under the structural tier the rebound type is the same template with
\* as many arguments: the first is the target type, every other one equal to
\* the container's allocator type is that allocator over the target type, and
\* every other one is unchanged, in its place.
C9_StructuralSubstitution ==
    [][(Rebound /\ ~declares_other(ty)) =>
        /\ ty'.name = ty.name
        /\ Len(ty'.args) = Len(ty.args)
        /\ ty'.args[1] = Target
        /\ \A i \in 2..Len(ty.args) :
            IF ty.args[i] = allocator_type(ty)
            THEN ty'.args[i] = Type(ty.args[i].name, <<Target>> \o Tail(ty.args[i].args))
            ELSE ty'.args[i] = ty.args[i]]_vars

\* A three-parameter family: the value type replaced, the auxiliary parameter
\* kept, the allocator rebound.
C9_Witness ==
    /\ path = <<Scalar("double")>>
    /\ ty0 = UserContainer(Scalar("int"), CharTraits)
    /\ ty = Type("UserContainer",
                 <<Scalar("double"), CharTraits, StdAllocator(Scalar("double"))>>)

\* The container was rebound structurally to B and then back to its own
\* element type A.
RoundTrip ==
    /\ Len(path) = 2 /\ ~declares_other(ty0) /\ path[2] = ty0.args[1]

\* C10: under the structural tier, rebinding a container of element type A
\* to B and the result back to A yields the original container type,
\* allocator included.
C10_RoundTrip == RoundTrip => ty = ty0

\* No argument after the first is, without being the allocator type, the
\* allocator type rebound to B.
NoArgumentIsReboundAllocator ==
    \A i \in 2..Len(ty0.args) :
        ty0.args[i] = rebind_alloc(allocator_type(ty0), path[1])
            => ty0.args[i] = allocator_type(ty0)

\* C10, amended: ... provided no argument after the first, other than the
\* allocator type itself, equals the allocator type rebound to B.
C10_RoundTripAmended == (RoundTrip /\ NoArgumentIsReboundAllocator) => ty = ty0

\* std::vector<int> went to std::vector<double> and back.
C10_Witness ==
    /\ RoundTrip /\ NoArgumentIsReboundAllocator
    /\ ty0 = StdContainer("std::vector", Scalar("int"))
    /\ path = <<Scalar("double"), Scalar("int")>>
    /\ ty = ty0

\* C11: for every container and every predicate p, count_if(p) is the number
\* of elements of filter(p) on the same container, in either form of filter.
C11_CountIfIsFilterLength ==
    op = "count_if" =>
        /\ status = "returned"
        /\ ret = Len(filter_lref(pre, arg).ret)
        /\ ret = Len(filter_rref(pre, arg).ret)

\* A predicate that some elements satisfy and some do not was counted.
C11_Witness ==
    /\ op = "count_if" /\ Len(pre) = MaxLen /\ ret = 2
    /\ Len(filter_lref(pre, arg).ret) = 2

\* The elements of a, then of b, then of c.
InOrder(a, b, c) ==
    [i \in 1..(Len(a) + Len(b) + Len(c)) |->
        IF i <= Len(a) THEN a[i]
        ELSE IF i <= Len(a) + Len(b) THEN b[i - Len(a)]
        ELSE c[i - Len(a) - Len(b)]]

\* C12: concat is associative in element order: (a.concat(b)).concat(c) and
\* a.concat(b.concat(c)) each return the elements of a, then b, then c,
\* whichever form is selected for each call, and so each returns what the
\* other expression returns in any of its forms.
C12_ConcatAssociative ==
    /\ op \in {"(a.concat(b)).concat(c)", "a.concat(b.concat(c))"} =>
            /\ status = "returned"
            /\ ret = InOrder(env.a, env.b, env.c)
    /\ op = "(a.concat(b)).concat(c)" =>
            /\ ret = concat_lref(env.a, concat_lref(env.b, env.c).ret).ret
            /\ ret = concat_rref(env.a, concat_rref(env.b, env.c).ret).ret
    /\ op = "a.concat(b.concat(c))" =>
            /\ ret = concat_lref(concat_lref(env.a, env.b).ret, env.c).ret
            /\ ret = concat_rref(concat_rref(env.a, env.b).ret, env.c).ret

\* Three non-empty containers of different elements were concatenated from
\* the left, in place at the second call.
C12_Witness ==
    /\ op = "(a.concat(b)).concat(c)" /\ form = "rvalue"
    /\ env.a = <<1, 2>> /\ env.b = <<2>> /\ env.c = <<1, 1>>
    /\ ret = <<1, 2, 2, 1, 1>>

\* The inner containers of c one after the other, and the sum of their lengths.
RECURSIVE Concatenation(_)
Concatenation(c) == IF c = <<>> THEN <<>> ELSE Head(c) \o Concatenation(Tail(c))

RECURSIVE SumOfLengths(_)
SumOfLengths(c) == IF c = <<>> THEN 0 ELSE Len(Head(c)) + SumOfLengths(Tail(c))

\* C13: flatten on a container of containers returns the inner containers'
\* elements in outer-then-inner order: as many elements as the inner
\* containers hold together, an empty inner container adding none; the
\* move-aware form on an rvalue receiver returns what the copying form returns.
C13_FlattenOuterThenInner ==
    op = "flatten" =>
        /\ status = "returned"
        /\ ret = Concatenation(pre)
        /\ Len(ret) = SumOfLengths(pre)
        /\ form = "rvalue" => ret = flatten_lref(pre).ret

\* The move-aware form flattened an empty and a non-empty inner container.
C13_Witness ==
    /\ op = "flatten" /\ form = "rvalue"
    /\ Len(pre) = 2 /\ pre[1] = <<>> /\ pre[2] = <<2, 1>>
    /\ ret = <<2, 1>>

\* The move-aware form flattened two inner containers of different elements.
C13_WitnessOrder ==
    /\ op = "flatten" /\ form = "rvalue"
    /\ pre = << <<1, 2>>, <<2, 1>> >> /\ ret = <<1, 2, 2, 1>>

\* f(...f(f(seed, e1), e2)..., en) for the elements e1..en of s.
RECURSIVE LeftFold(_, _, _)
LeftFold(f, seed, s) ==
    IF s = <<>> THEN seed
    ELSE f_call(f, LeftFold(f, seed, SubSeq(s, 1, Len(s) - 1)), s[Len(s)])

\* The events of kind k of a log, in order.
Events(l, k) == SelectSeq(l, LAMBDA e : e.k = k)

\* C14: reduce with a seed is a left fold in forward order: it returns
\* f(...f(f(seed, e1), e2)..., en), the i-th application of f taking the i-th
\* element and each element being read once; on an empty container it
\* returns the seed and f is not called; so on an lvalue as on an rvalue
\* receiver.
C14_ReduceSeedLeftFold ==
    op = "reduce_seed" =>
        /\ status = "returned"
        /\ ret = LeftFold(arg.f, arg.init, pre)
        /\ Len(Events(log, "call")) = Len(pre)
        /\ \A i \in 1..Len(pre) :
            /\ Events(log, "call")[i].b = pre[i]
            /\ Events(log, "call")[i].a = LeftFold(arg.f, arg.init, SubSeq(pre, 1, i - 1))
            /\ Events(log, "deref")[i].at = i
        /\ Len(Events(log, "deref")) = Len(pre)
        /\ pre = <<>> => (ret = arg.init /\ Events(log, "call") = <<>>)
        /\ ret = reduce_lref(pre, arg.f, arg.init).ret

\* A fold whose result depends on the order of the elements ran on an rvalue
\* receiver.
C14_Witness ==
    /\ op = "reduce_seed" /\ form = "rvalue" /\ arg.f = "second"
    /\ Len(pre) = 3 /\ pre[1] # pre[3]
    /\ ret # LeftFold(arg.f, arg.init, <<pre[3], pre[2], pre[1]>>)
    /\ ret = LeftFold(arg.f, arg.init, pre)

\* reduce with a seed ran on an empty container.
C14_WitnessEmpty ==
    /\ op = "reduce_seed" /\ pre = <<>> /\ ret = arg.init /\ log = <<>>

\* No element of s compares less than one before it.
NonDecreasing(s, comp) ==
    \A i, j \in 1..Len(s) : i < j => ~comp_call(comp, s[j], s[i])

\* How often x occurs in s.
Occurrences(s, x) == Cardinality({i \in 1..Len(s) : s[i] = x})

\* C15: for any elements in any order and any strict weak order, sort on a
\* random-access container (std::sort) and on a link-based container (its own
\* sort) leaves the container non-decreasing under the comparator and holding
\* the same multiset of elements as before.
C15_SortBothPaths ==
    op = "sort" =>
        /\ status = "returned"
        /\ NonDecreasing(self, arg)
        /\ \A x \in Elem : Occurrences(self, x) = Occurrences(pre, x)
        /\ Len(self) = Len(pre)

\* A list out of order was sorted by its own sort under "greater".
C15_Witness ==
    /\ op = "sort" /\ shape = "list" /\ arg = {<<2, 1>>}
    /\ pre = <<1, 2, 1>> /\ self = <<2, 1, 1>>

\* A vector out of order was sorted by std::sort under "greater".
C15_WitnessRandomAccess ==
    /\ op = "sort" /\ shape = "vector" /\ arg = {<<2, 1>>}
    /\ pre = <<1, 2, 1>> /\ self = <<2, 1, 1>>

\* The elements of s other than those of `values`, in their order.
Without(s, values) == SelectSeq(s, LAMBDA x : x \notin values)

\* C16: erase_all(value) removes every element equal to value from the
\* receiver and keeps the others in their order; it returns a reference to
\* the receiver, so that after c.erase_all(v).erase_all(w) the receiver c
\* holds neither v nor w.
C16_EraseAllReturnsReceiver ==
    /\ op = "erase_all" =>
            /\ status = "returned"
            /\ self = Without(pre, {arg})
            /\ ret = self
    /\ op = "erase_all.erase_all" =>
            /\ status = "returned"
            /\ self = Without(pre, {arg[1], arg[2]})

\* The part of C16 about the receiver of a single call.
C16_EraseAllRemoves ==
    op = "erase_all" =>
        /\ status = "returned"
        /\ self = Without(pre, {arg})
        /\ ret = self

\* The pattern matches nowhere in s: no character of s is of its class.
MatchesNowhere(s, pattern) == \A i \in 1..Len(s) : s[i] \notin pattern.class

\* C17: split with a pattern that matches nowhere in the receiver returns a
\* one-element container holding the whole receiver.
C17_SplitNoMatchWhole ==
    (op = "split" /\ MatchesNowhere(pre, arg)) =>
        /\ status = "returned"
        /\ ret = <<pre>>

\* What the test of split relies on: the default pattern on a non-empty
\* receiver without whitespace returns the receiver as the one element.
C17_SplitDefaultWholeWord ==
    (op = "split" /\ arg = DefaultPattern /\ pre # <<>> /\ " " \notin Range(pre)) =>
        /\ status = "returned"
        /\ ret = <<pre>>

\* s1 + d + s2 + ... + d + sk
RECURSIVE Joined(_, _)
Joined(strings, d) ==
    IF strings = <<>> THEN <<>>
    ELSE IF Len(strings) = 1 THEN strings[1]
    ELSE Joined(SubSeq(strings, 1, Len(strings) - 1), d) \o d \o strings[Len(strings)]

\* C18: d.join(strings) returns the empty string for an empty container, the
\* one string of a one-element container, and s1 + d + s2 + ... + d + sk for
\* k >= 2 strings: d is added k - 1 times, never before the first and never
\* after the last string; the cursor is never advanced past the container's
\* end (nor dereferenced there).
C18_JoinDelimitsBetween ==
    op = "join" =>
        /\ status = "returned"
        /\ ret = Joined(arg, pre)
        /\ arg = <<>> => ret = <<>>
        /\ Len(arg) = 1 => ret = arg[1]
        /\ Len(arg) >= 1 =>
            /\ Len(ret) = SumOfLengths(arg) + (Len(arg) - 1) * Len(pre)
            /\ SubSeq(ret, 1, Len(arg[1])) = arg[1]
            /\ SubSeq(ret, Len(ret) - Len(arg[Len(arg)]) + 1, Len(ret)) = arg[Len(arg)]
        /\ ~AdvancedPastEnd(log)
        /\ ~DereferencedEnd(log)

\* Three strings, the second one empty, were joined by a delimiter.
C18_Witness ==
    /\ op = "join" /\ pre = <<" ">> /\ arg = << <<"a">>, <<>>, <<"b">> >>
    /\ ret = <<"a", " ", " ", "b">>

\* The inputs of the zip or zip_n call of the state: input 0 is the receiver.
ZipInputs == IF op = "zip" THEN Inputs(pre, <<arg>>) ELSE Inputs(pre, arg.containers)

\* The events of the cursor set: zip_n measures its inputs (counting those
\* without size() with a cursor of its own) before it creates the set; the
\* set's events start with the first dereference.
CursorSetEvents(l) ==
    LET derefs == {i \in 1..Len(l) : l[i].k = "deref"}
    IN  IF derefs = {} THEN <<>>
        ELSE SubSeq(l, CHOOSE i \in derefs : \A j \in derefs : i <= j, Len(l))

\* Where cursor k of the set stands before the i-th event of l.
Position(l, i, k) ==
    1 + Cardinality({j \in 1..(i - 1) : l[j].k = "inc" /\ l[j].c = k})

\* C19: during zip and zip_n every cursor of the set advances exactly once per
\* step (one step per returned tuple), no cursor is dereferenced once any
\* cursor of the set has reached its container's end, and no cursor is ever
\* advanced past its container's end, whatever the lengths of the inputs.
C19_CursorSetSafe ==
    op \in {"zip", "zip_n"} =>
        LET l == CursorSetEvents(log)
            ins == ZipInputs
        IN  /\ status = "returned"
            /\ \A k \in DOMAIN ins :
                /\ Len(SelectSeq(l, LAMBDA e : e.k = "inc" /\ e.c = k)) = Len(ret)
                /\ \A q \in 1..Len(ret) :
                    Cardinality({i \in 1..Len(l) :
                        l[i].k = "inc" /\ l[i].c = k /\ l[i].at = q}) = 1
            /\ \A i \in 1..Len(l) :
                l[i].k = "deref" =>
                    /\ l[i].at = Position(l, i, l[i].c)
                    /\ \A k \in DOMAIN ins : Position(l, i, k) < End(ins[k])
            /\ ~AdvancedPastEnd(log)
            /\ ~DereferencedEnd(log)

\* zip_n made two steps over three inputs, the shortest one counted by
\* traversal.
C19_Witness ==
    /\ op = "zip_n" /\ Len(arg.containers) = 2
    /\ arg.shs = <<"forward_list", "list">>
    /\ Len(pre) = MaxLen /\ Len(arg.containers[1]) = 2 /\ Len(arg.containers[2]) = 2
    /\ Len(ret) = 2 /\ Len(log) > Len(CursorSetEvents(log))

\* zip stopped at once on an empty argument.
C19_WitnessEmpty ==
    /\ op = "zip" /\ Len(pre) = MaxLen /\ arg = <<>> /\ ret = <<>> /\ log = <<>>

\* The positions at which cursor k was dereferenced, and those at which it
\* was incremented, in the order of the events of l.
Visited(l, k) ==
    LET es == SelectSeq(l, LAMBDA e : e.k = "deref" /\ e.c = k)
    IN  [i \in 1..Len(es) |-> es[i].at]

Stepped(l, k) ==
    LET es == SelectSeq(l, LAMBDA e : e.k = "inc" /\ e.c = k)
    IN  [i \in 1..Len(es) |-> es[i].at]

\* 1, 2, ..., n
UpTo(n) == [i \in 1..n |-> i]

\* Cursor k read each of the positions 1..n once, in forward order, and was
\* advanced once from each.
FullPass(l, k, n) == Visited(l, k) = UpTo(n) /\ Stepped(l, k) = UpTo(n)

\* The containers the call of the state traverses: input 0 is the receiver,
\* input k the k-th argument (of flatten: the k-th inner container).
Traversed ==
    CASE op = "zip" -> Inputs(pre, <<arg>>)
      [] op = "zip_n" -> Inputs(pre, arg.containers)
      [] op = "flatten" -> Inputs(pre, pre)
      [] OTHER -> Inputs(pre, <<>>)

\* The operations C20 names, and reduce and count in both their variants.
SinglePassOps ==
    {"contains", "count", "count_if", "filter", "map", "reduce", "reduce_seed",
     "flatten", "unzip", "zip", "zip_n"}

StopOf(s, x) ==
    IF x \in Range(s) THEN CHOOSE i \in 1..Len(s) : s[i] = x /\ \A j \in 1..(i - 1) : s[j] # x
    ELSE Len(s)

\* The events of zip_n before the cursor set's: the measuring of the inputs.
MeasuringEvents(l) == SubSeq(l, 1, Len(l) - Len(CursorSetEvents(l)))

C20_WitnessSecondPass ==
    /\ op = "zip_n" /\ Len(arg.containers) = 1 /\ arg.shs = <<"forward_list">>
    /\ Len(pre) = 1 /\ Len(arg.containers[1]) = 2
    /\ Stepped(log, 1) = <<1, 2, 1>>

\* The elements of s that p accepts, in the order of s.
Satisfying(s, p) == SelectSeq(s, LAMBDA x : p_call(p, x))

C21_WitnessFilter ==
    /\ op = "filter" /\ form = "rvalue" /\ Len(pre) = 3
    /\ Len(ret) = 2 /\ ret = erase_if(pre, not_p(arg)).self
====
